---- MODULE Spec2Model ----
(***************************************************************************)
(* Model of msys2_autobuild/utils.py: the optional-dependency parser and   *)
(* its merge into Config.OPTIONAL_DEPS, the memoized requests session, the *)
(* install_requests_cache scope, queue_website_update and ask_yes_no.      *)
(*                                                                         *)
(* A Python str is a sequence of one-character strings.  A dict is a       *)
(* function whose DOMAIN is its key set.  The outcome of a call is a       *)
(* record: [kind |-> "return", value |-> v] or [kind |-> "raise",          *)
(* exc |-> name of the exception class].                                   *)
(***************************************************************************)
EXTENDS Integers, Sequences, FiniteSets, TLC

VARIABLES
    pc,             \* position of the caller of the pure functions
    asserts,        \* TRUE: assert statements are executed; FALSE: python -O
    optional_deps,  \* argument of parse_optional_deps
    res,            \* outcome of parse_optional_deps
    OPTIONAL_DEPS,  \* Config.OPTIONAL_DEPS, the process-wide registry
    registry0,      \* history: Config.OPTIONAL_DEPS when the process started
    calls,          \* history: the arguments of the apply_optional_deps calls
    installed,      \* requests.Session is patched by requests_cache
    memo,           \* functools.cache of get_requests_session: key -> session
    sessions,       \* the sessions constructed so far; a session is its index
    scope,          \* "in" inside the install_requests_cache scope, else "out"
    cache_dir,      \* names of the files in <cwd>/.autobuild_cache
    version,        \* requests_cache.__version__ of this process
    responses,      \* ages in hours of the responses in the current cache file
    removed,        \* history: the files the last scope entry removed
    last,           \* outcome of the last operation
    user_input,     \* the line input() returns to ask_yes_no
    default_no,     \* argument of ask_yes_no
    answer          \* outcome of ask_yes_no

depsVars == <<asserts, optional_deps, res, OPTIONAL_DEPS, registry0, calls>>
cacheVars == <<installed, memo, sessions, scope, cache_dir, version, responses,
               removed, last>>
promptVars == <<user_input, default_no, answer>>

vars == <<pc, depsVars, cacheVars, promptVars>>

(***************************************************************************)
(* Bounds                                                                  *)
(***************************************************************************)
MaxLen == 5
MaxCalls == 3
MaxAge == 4
MaxLine == 3

Chars == {"A", "B", "C", ":", ",", " "}

RECURSIVE StrsOfLen(_, _)
StrsOfLen(alphabet, n) ==
    IF n = 0 THEN {<<>>}
    ELSE {Append(s, c) : s \in StrsOfLen(alphabet, n - 1), c \in alphabet}

StrsUpTo(alphabet, n) == UNION {StrsOfLen(alphabet, k) : k \in 0..n}

Return(v) == [kind |-> "return", value |-> v]
Raise(e) == [kind |-> "raise", exc |-> e]
NotCalled == [kind |-> "none"]
NoOperation == [op |-> "none"]

(***************************************************************************)
(* str and dict primitives                                                 *)
(***************************************************************************)
\* s.replace(" ", "")
replace_spaces(s) == SelectSeq(s, LAMBDA c : c # " ")

\* s.split(sep, maxsplit): at most maxsplit cuts, leftmost first; a negative
\* maxsplit means no limit.  Always returns at least one element.
RECURSIVE split(_, _, _)
split(s, sep, maxsplit) ==
    IF maxsplit = 0 \/ ~(\E i \in 1..Len(s) : s[i] = sep)
    THEN <<s>>
    ELSE LET i == CHOOSE i \in 1..Len(s) :
                        s[i] = sep /\ \A j \in 1..(i - 1) : s[j] # sep
         IN  <<SubSeq(s, 1, i - 1)>>
                 \o split(SubSeq(s, i + 1, Len(s)), sep, maxsplit - 1)

NoLimit == -1

\* sep in s
contains(s, sep) == \E i \in 1..Len(s) : s[i] = sep

EmptyDict == [k \in {} |-> <<>>]

\* d.setdefault(k, []).append(v)
setdefault_append(d, k, v) ==
    IF k \in DOMAIN d
    THEN [d EXCEPT ![k] = Append(@, v)]
    ELSE [x \in DOMAIN d \cup {k} |-> IF x = k THEN <<v>> ELSE d[x]]

\* d.setdefault(k, []).extend(vs)
setdefault_extend_replace(d, k, vs) ==
    [x \in DOMAIN d \cup {k} |-> IF x = k THEN vs ELSE d[x]]

setdefault_extend(d, k, vs) ==
    IF k \in DOMAIN d
    THEN [d EXCEPT ![k] = @ \o vs]
    ELSE [x \in DOMAIN d \cup {k} |-> IF x = k THEN vs ELSE d[x]]

(***************************************************************************)
(* parse_optional_deps                                                     *)
(***************************************************************************)
\* the maxsplit argument of entry.split(":", 2)
ColonMaxSplit == 2

\* One iteration of the for loop over the entries, from the dict built so
\* far: the assert, the split, the unpacking into (first, second) and the
\* append.  A raised exception ends the loop.
parse_entry_skip(acc, entry, assertsOn) ==
    IF acc.kind = "raise" THEN acc
    ELSE IF ~contains(entry, ":") THEN acc
    ELSE LET parts == split(entry, ":", ColonMaxSplit)
         IN  IF Len(parts) # 2 THEN Raise("ValueError")
             ELSE Return(setdefault_append(acc.value, parts[1], parts[2]))

parse_entry(acc, entry, assertsOn) ==
    IF acc.kind = "raise" THEN acc
    ELSE IF assertsOn /\ ~contains(entry, ":") THEN Raise("AssertionError")
    ELSE LET parts == split(entry, ":", ColonMaxSplit)
         IN  IF Len(parts) # 2 THEN Raise("ValueError")
             ELSE Return(setdefault_append(acc.value, parts[1], parts[2]))

RECURSIVE parse_loop(_, _, _)
parse_loop(acc, entries, assertsOn) ==
    IF entries = <<>> THEN acc
    ELSE parse_loop(parse_entry(acc, Head(entries), assertsOn),
                    Tail(entries), assertsOn)

parse_optional_deps(s, assertsOn) ==
    LET stripped == replace_spaces(s)
    IN  IF stripped = <<>> THEN Return(EmptyDict)
        ELSE parse_loop(Return(EmptyDict), split(stripped, ",", NoLimit),
                        assertsOn)

(***************************************************************************)
(* apply_optional_deps                                                     *)
(***************************************************************************)
RECURSIVE merge_loop(_, _, _)
merge_loop(registry, parsed, keys) ==
    IF keys = {} THEN registry
    ELSE LET dep == CHOOSE k \in keys : TRUE
         IN  merge_loop(setdefault_extend(registry, dep, parsed[dep]),
                        parsed, keys \ {dep})

\* The registry after apply_optional_deps(s): the parse happens first, and
\* an exception from it leaves the registry as it was.
apply_optional_deps(registry, s, assertsOn) ==
    LET parsed == parse_optional_deps(s, assertsOn)
    IN  IF parsed.kind = "raise" THEN registry
        ELSE merge_loop(registry, parsed.value, DOMAIN parsed.value)

(***************************************************************************)
(* Inputs                                                                  *)
(***************************************************************************)
ParseInputs == StrsUpTo(Chars, MaxLen)

ApplyInputs ==
    { <<>>,
      <<" ">>,
      <<"A", ":", "B">>,
      <<"B", ":", "A">>,
      <<"A", ":", "C">>,
      <<"A", ":", "B", ",", "A", ":", "C">>,
      <<"A", ":", "B", ",", "A", ":", "B">>,
      <<" ", "B", ":", "C", " ", ",", " ", "A", ":", "B">>,
      <<"A", "B">>,
      <<"A", ":", "B", ",">>,
      <<"A", ":", "B", ":", "C">> }

Registries ==
    { EmptyDict,
      [k \in {<<"A">>} |-> <<<<"B">>>>],
      [k \in {<<"A">>, <<"C">>} |-> IF k = <<"A">> THEN <<<<"C">>, <<"C">>>>
                                                    ELSE <<>>] }

\* The parts of the state a specification about another part leaves alone.
DepsIdle ==
    /\ asserts = TRUE
    /\ optional_deps = <<>>
    /\ res = NotCalled
    /\ OPTIONAL_DEPS = EmptyDict
    /\ registry0 = EmptyDict
    /\ calls = <<>>

CacheIdle ==
    /\ installed = FALSE
    /\ memo = EmptyDict
    /\ sessions = <<>>
    /\ scope = "out"
    /\ cache_dir = {}
    /\ version = <<"1">>
    /\ responses = {}
    /\ removed = {}
    /\ last = NoOperation

PromptIdle ==
    /\ user_input = <<>>
    /\ default_no = TRUE
    /\ answer = NotCalled

(***************************************************************************)
(* Specification of the parser: one call on every bounded input            *)
(***************************************************************************)
InitParse ==
    /\ pc = "call"
    /\ asserts \in BOOLEAN
    /\ optional_deps \in ParseInputs
    /\ res = NotCalled
    /\ OPTIONAL_DEPS = EmptyDict
    /\ registry0 = EmptyDict
    /\ calls = <<>>
    /\ CacheIdle
    /\ PromptIdle

Parse ==
    /\ pc = "call"
    /\ res' = parse_optional_deps(optional_deps, asserts)
    /\ pc' = "done"
    /\ UNCHANGED <<asserts, optional_deps, OPTIONAL_DEPS, registry0, calls>>
    /\ UNCHANGED <<cacheVars, promptVars>>

NextParse == Parse

SpecParse == InitParse /\ [][NextParse]_vars

(***************************************************************************)
(* Specification of the merge: a bounded sequence of apply_optional_deps   *)
(* calls on the process-wide registry                                      *)
(***************************************************************************)
InitApply ==
    /\ pc = "idle"
    /\ asserts \in BOOLEAN
    /\ optional_deps = <<>>
    /\ res = NotCalled
    /\ OPTIONAL_DEPS \in Registries
    /\ registry0 = OPTIONAL_DEPS
    /\ calls = <<>>
    /\ CacheIdle
    /\ PromptIdle

Apply(s) ==
    /\ Len(calls) < MaxCalls
    /\ OPTIONAL_DEPS' = apply_optional_deps(OPTIONAL_DEPS, s, asserts)
    /\ calls' = Append(calls, s)
    /\ UNCHANGED <<pc, asserts, optional_deps, res, registry0>>
    /\ UNCHANGED <<cacheVars, promptVars>>

NextApply == \E s \in ApplyInputs : Apply(s)

SpecApply == InitApply /\ [][NextApply]_vars

(***************************************************************************)
(* Claims about parse_optional_deps (checked under SpecParse)              *)
(***************************************************************************)
\* The comma-separated entries of t, read off the text itself: t has an
\* entry without a colon when t is not empty and some stretch between two
\* neighbouring commas (or an end of t) holds no colon.  The stretch may be
\* empty: a leading, trailing or doubled comma.
HasEntryWithoutColon(t) ==
    /\ Len(t) > 0
    /\ \E a \in 0..Len(t), b \in 1..(Len(t) + 1) :
          /\ a < b
          /\ (a = 0 \/ t[a] = ",")
          /\ (b = Len(t) + 1 \/ t[b] = ",")
          /\ \A i \in (a + 1)..(b - 1) : t[i] \notin {",", ":"}

ColonCount(e) == Cardinality({i \in 1..Len(e) : e[i] = ":"})

\* C1: whenever the input, with its spaces removed, has an entry without a
\* colon (an empty entry included), parse_optional_deps raises: it returns
\* no mapping, wherever the bad entry stands and whatever precedes it.
C1_RaisesOnEntryWithoutColon ==
    (pc = "done" /\ HasEntryWithoutColon(replace_spaces(optional_deps)))
        => res.kind = "raise"

\* A well-formed entry followed by an entry without a colon was parsed and
\* the call raised.
C1_Witness ==
    /\ pc = "done"
    /\ optional_deps = <<"A", ":", "B", ",", "A">>
    /\ res.kind = "raise"

\* C2: an entry with two or more colons is split at its first colon only:
\* the text before it is the key, all the text after it (later colons
\* included) is appended to that key's list.
C2_FirstColonSplitOnly ==
    LET entries == split(replace_spaces(optional_deps), ",", NoLimit)
        Range(f) == {f[i] : i \in DOMAIN f}
    IN  ( /\ pc = "done"
          /\ replace_spaces(optional_deps) # <<>>
          /\ \A i \in DOMAIN entries : ColonCount(entries[i]) >= 1
          /\ \E i \in DOMAIN entries : ColonCount(entries[i]) >= 2 )
        => /\ res.kind = "return"
           /\ \A i \in DOMAIN entries :
                 LET e == entries[i]
                     p == CHOOSE p \in 1..Len(e) :
                              e[p] = ":" /\ \A j \in 1..(p - 1) : e[j] # ":"
                     key == SubSeq(e, 1, p - 1)
                 IN  /\ key \in DOMAIN res.value
                     /\ SubSeq(e, p + 1, Len(e)) \in Range(res.value[key])

(***************************************************************************)
(* Claims about apply_optional_deps (checked under SpecApply)              *)
(***************************************************************************)
\* An input of the documented form: empty once its spaces are removed, or
\* comma-separated entries PACKAGE:IGNORED_DEP with one colon each.
WellFormed(s) ==
    LET t == replace_spaces(s)
    IN  t = <<>> \/ (~HasEntryWithoutColon(t) /\
                      \A i \in DOMAIN split(t, ",", NoLimit) :
                          ColonCount(split(t, ",", NoLimit)[i]) = 1)

ColonAt(e) == CHOOSE p \in 1..Len(e) : e[p] = ":"
PackageOf(e) == SubSeq(e, 1, ColonAt(e) - 1)
IgnoredOf(e) == SubSeq(e, ColonAt(e) + 1, Len(e))

\* The ignored dependencies a well-formed input lists for package k, in
\* the order of the entries.
RECURSIVE IgnoredFor(_, _)
IgnoredFor(entries, k) ==
    IF entries = <<>> THEN <<>>
    ELSE (IF PackageOf(Head(entries)) = k THEN <<IgnoredOf(Head(entries))>>
                                          ELSE <<>>)
         \o IgnoredFor(Tail(entries), k)

EntriesOf(s) ==
    IF replace_spaces(s) = <<>> THEN <<>>
    ELSE split(replace_spaces(s), ",", NoLimit)

RECURSIVE IgnoredInCalls(_, _)
IgnoredInCalls(cs, k) ==
    IF cs = <<>> THEN <<>>
    ELSE IgnoredFor(EntriesOf(Head(cs)), k) \o IgnoredInCalls(Tail(cs), k)

PackagesInCalls(cs) ==
    UNION { {PackageOf(EntriesOf(cs[i])[j]) : j \in DOMAIN EntriesOf(cs[i])}
            : i \in DOMAIN cs }

\* C3: after any sequence of apply_optional_deps calls with well-formed
\* inputs, every key's registry list is its initial list followed by the
\* lists parsed for it, in call order; nothing is replaced, removed or
\* deduplicated, absent keys are created, and the same input applied twice
\* to an empty registry gives lists of twice the parsed length.
C3_RegistryAccumulates ==
    (\A i \in DOMAIN calls : WellFormed(calls[i]))
        => /\ DOMAIN OPTIONAL_DEPS = DOMAIN registry0 \cup PackagesInCalls(calls)
           /\ \A k \in DOMAIN OPTIONAL_DEPS :
                 OPTIONAL_DEPS[k] =
                     (IF k \in DOMAIN registry0 THEN registry0[k] ELSE <<>>)
                         \o IgnoredInCalls(calls, k)
           /\ (registry0 = EmptyDict /\ Len(calls) = 2 /\ calls[1] = calls[2])
                 => \A k \in DOMAIN OPTIONAL_DEPS :
                       Len(OPTIONAL_DEPS[k])
                           = 2 * Len(IgnoredFor(EntriesOf(calls[1]), k))

\* The same two-entry input was applied twice to an empty registry, and a
\* further call extended a list that was already there.
C3_Witness ==
    /\ registry0 = EmptyDict
    /\ calls = << <<"A", ":", "B", ",", "A", ":", "C">>,
                  <<"A", ":", "B", ",", "A", ":", "C">>,
                  <<"B", ":", "A">> >>
    /\ OPTIONAL_DEPS[<<"A">>] = << <<"B">>, <<"C">>, <<"B">>, <<"C">> >>
    /\ OPTIONAL_DEPS[<<"B">>] = << <<"A">> >>

(***************************************************************************)
(* get_requests_session                                                    *)
(***************************************************************************)
\* The ways of calling get_requests_session(nocache: bool = False).
\* functools.cache keys a call by its positional and keyword arguments as
\* written, so each call form is a memo key of its own.
CallForms ==
    { [form |-> "default"] }
        \cup { [form |-> f, nocache |-> b] :
                   f \in {"positional", "keyword"}, b \in BOOLEAN }

DefaultCall == [form |-> "default"]
KeywordCall(b) == [form |-> "keyword", nocache |-> b]

\* The value the parameter nocache takes in the body.
NocacheOf(key) == IF key.form = "default" THEN FALSE ELSE key.nocache

\* requests.Session() in the body: inside requests_cache_disabled() the
\* patch is lifted for the construction and put back after it; otherwise
\* the session is a CachedSession exactly when the patch is installed.
new_session_no_disable(nocache, patched, where) ==
    [cached |-> patched, nocache |-> nocache, born |-> where]

new_session(nocache, patched, where) ==
    [cached  |-> IF nocache THEN FALSE ELSE patched,
     nocache |-> nocache,
     born    |-> where]

\* The memo and the sessions after a call with this key: a hit changes
\* nothing, a miss runs the body and stores its result under the key.
memo_after(m, key, ss) ==
    IF key \in DOMAIN m THEN m
    ELSE [k \in DOMAIN m \cup {key} |->
              IF k = key THEN Len(ss) + 1 ELSE m[k]]

sessions_after(m, key, ss, patched, where) ==
    IF key \in DOMAIN m THEN ss
    ELSE Append(ss, new_session(NocacheOf(key), patched, where))

get_requests_session(key) ==
    /\ memo' = memo_after(memo, key, sessions)
    /\ sessions' = sessions_after(memo, key, sessions, installed, scope)

GetSession(key) ==
    /\ get_requests_session(key)
    /\ last' = [op |-> "get_requests_session", key |-> key,
                session |-> memo'[key]]
    /\ UNCHANGED <<installed, scope, cache_dir, version, responses, removed>>
    /\ UNCHANGED <<pc, depsVars, promptVars>>

(***************************************************************************)
(* install_requests_cache                                                  *)
(***************************************************************************)
Prefix == <<"h", "t", "t", "p", "_", "c", "a", "c", "h", "e">>
Suffix == <<".", "s", "q", "l", "i", "t", "e">>

\* f'http_cache_{requests_cache.__version__}.sqlite'
cache_file(v) == Prefix \o <<"_">> \o v \o Suffix

\* f.startswith(prefix)
startswith(f, prefix) ==
    Len(f) >= Len(prefix) /\ SubSeq(f, 1, Len(prefix)) = prefix

\* The test of the "delete other versions" loop.
is_other_version_any_name(f, current) == f # current

is_other_version(f, current) == startswith(f, Prefix) /\ f # current

\* timedelta(hours=3)
PruneHours == 3

\* Entry of the scope, up to the yield: the stale files are removed, the
\* cache is installed on the current version's file (created if absent),
\* and the nocache session is constructed once.  The scope is not entered
\* while it is active: the callers do not nest it.  All calls come from one
\* thread, so a call runs from start to end before the next one starts.
EnterScope ==
    /\ scope = "out"
    /\ removed' = {f \in cache_dir : is_other_version(f, cache_file(version))}
    /\ cache_dir' = (cache_dir \ removed') \cup {cache_file(version)}
    /\ installed' = TRUE
    /\ memo' = memo_after(memo, KeywordCall(TRUE), sessions)
    /\ sessions' = sessions_after(memo, KeywordCall(TRUE), sessions, TRUE, "in")
    /\ scope' = "in"
    /\ last' = [op |-> "enter", dir |-> cache_dir]
    /\ UNCHANGED <<version, responses>>
    /\ UNCHANGED <<pc, depsVars, promptVars>>

\* Exit of the scope, the finally block, after the wrapped work returned
\* or raised.  cache.delete runs a statement on the sqlite file and can
\* raise; uninstall_cache comes after it in the same block.
ExitScope(bodyRaised, deleteRaises) ==
    /\ scope = "in"
    /\ scope' = "out"
    /\ IF deleteRaises
       THEN /\ UNCHANGED <<responses, installed>>
            /\ last' = [op |-> "exit", kind |-> "raise", exc |-> "sqlite3.Error"]
       ELSE /\ responses' = {a \in responses : a <= PruneHours}
            /\ installed' = FALSE
            /\ last' = [op |-> "exit",
                        kind |-> IF bodyRaised THEN "raise" ELSE "return",
                        exc |-> IF bodyRaised THEN "body" ELSE "none"]
    /\ UNCHANGED <<memo, sessions, cache_dir, version, removed>>
    /\ UNCHANGED <<pc, depsVars, promptVars>>

(***************************************************************************)
(* queue_website_update                                                    *)
(***************************************************************************)
\* What session.post can do: return a response with a success status,
\* return one with an error status, or raise a transport error (a
\* ConnectionError, a Timeout, a RetryError).
PostOutcomes == {"ok", "error_status", "transport_error"}

\* session.post stands before the try block; raise_for_status inside it.
queue_website_update_outcome(post) ==
    IF post = "transport_error" THEN Raise("requests.RequestException")
    ELSE Return("None")

QueueWebsiteUpdate(post) ==
    /\ get_requests_session(DefaultCall)
    /\ last' = [op |-> "queue_website_update", post |-> post,
                out |-> queue_website_update_outcome(post)]
    /\ UNCHANGED <<installed, scope, cache_dir, version, responses, removed>>
    /\ UNCHANGED <<pc, depsVars, promptVars>>

(***************************************************************************)
(* Specification of the sessions and the cache scope                       *)
(***************************************************************************)
Versions == {<<"1">>, <<"2">>}

OtherFiles ==
    { Prefix,
      <<"h", "t", "t", "p", "_", "c", "a", "c", "h">>,
      <<"x">> \o cache_file(<<"1">>),
      cache_file(<<"1">>) \o <<"-", "w", "a", "l">>,
      <<"n", "o", "t", "e", "s">> }

FileNames == {cache_file(v) : v \in Versions} \cup OtherFiles

\* The responses a cache file left by an earlier run can hold.
StoredResponses(dir, v) ==
    IF cache_file(v) \in dir THEN {{}, 0..MaxAge} ELSE {{}}

InitCache ==
    /\ pc = "idle"
    /\ DepsIdle
    /\ PromptIdle
    /\ installed = FALSE
    /\ memo = EmptyDict
    /\ sessions = <<>>
    /\ scope = "out"
    /\ version \in Versions
    /\ cache_dir \in { {}, {cache_file(<<"1">>)},
                       {cache_file(<<"1">>), cache_file(<<"2">>)} }
    /\ responses \in StoredResponses(cache_dir, version)
    /\ removed = {}
    /\ last = NoOperation

NextCache ==
    \/ \E key \in CallForms : GetSession(key)
    \/ EnterScope
    \/ \E bodyRaised \in BOOLEAN, deleteRaises \in BOOLEAN :
           ExitScope(bodyRaised, deleteRaises)
    \/ \E post \in PostOutcomes : QueueWebsiteUpdate(post)

SpecCache == InitCache /\ [][NextCache]_vars

\* The cache directory with any set of files in it, and the scope alone.
InitDir ==
    /\ pc = "idle"
    /\ DepsIdle
    /\ PromptIdle
    /\ installed = FALSE
    /\ memo = EmptyDict
    /\ sessions = <<>>
    /\ scope = "out"
    /\ version \in Versions
    /\ cache_dir \in SUBSET FileNames
    /\ responses \in StoredResponses(cache_dir, version)
    /\ removed = {}
    /\ last = NoOperation

NextDir ==
    \/ EnterScope
    \/ \E bodyRaised \in BOOLEAN, deleteRaises \in BOOLEAN :
           ExitScope(bodyRaised, deleteRaises)

SpecDir == InitDir /\ [][NextDir]_vars

(***************************************************************************)
(* Claims about the sessions and the cache scope (checked under SpecCache, *)
(* C8 under SpecDir)                                                       *)
(***************************************************************************)
\* C4: whenever the scope has been entered and exits, after the wrapped
\* work returned or raised, the responses older than 3 hours are pruned and
\* the global cache is uninstalled; no exit path, a failure inside the exit
\* steps included, leaves the cache installed.
C4_ExitPrunesAndUninstalls ==
    last.op = "exit"
        => /\ ~installed
           /\ \A a \in responses : a <= PruneHours

\* C5: calls with the same nocache value return the identical session,
\* calls with different values return distinct sessions, and at most two
\* sessions are ever constructed, whatever the call form.
C5_MemoizedByNocacheValue ==
    /\ \A k1 \in DOMAIN memo, k2 \in DOMAIN memo :
          (NocacheOf(k1) = NocacheOf(k2)) <=> (memo[k1] = memo[k2])
    /\ Len(sessions) <= 2

\* C6: the session get_requests_session(nocache=False) returns is
\* cache-enabled when the call is made inside an active scope and is not
\* cache-enabled when the call is made outside one.
C6_SessionFollowsScope ==
    (last.op = "get_requests_session" /\ last.key = KeywordCall(FALSE))
        => (sessions[last.session].cached <=> scope = "in")

\* C7: a session returned for nocache=True is never cache-enabled, whether
\* it was constructed before, inside or after a scope and whatever entries
\* and exits follow.
C7_NocacheSessionNeverCached ==
    /\ \A k \in DOMAIN memo : NocacheOf(k) => ~sessions[memo[k]].cached
    /\ (last.op = "get_requests_session" /\ NocacheOf(last.key))
          => ~sessions[last.session].cached

\* A nocache call form the scope entry did not construct is first called
\* inside the scope, with the cache installed and a cache-enabled session
\* already handed out.
C7_Witness ==
    /\ last.op = "get_requests_session"
    /\ last.key = [form |-> "positional", nocache |-> TRUE]
    /\ last.session = Len(sessions)
    /\ sessions[last.session].born = "in"
    /\ installed
    /\ \E i \in DOMAIN sessions : sessions[i].cached

\* The cache-file naming pattern, read off the name letter by letter.
MatchesPattern(f) ==
    /\ Len(f) >= Len(Prefix)
    /\ \A i \in 1..Len(Prefix) : f[i] = Prefix[i]

\* C8: on entry to the scope the files removed are exactly those whose name
\* matches the cache-file pattern and is not the current version's file:
\* every other version's cache file goes, the current file and the files
\* not matching the pattern stay, and at most one cache file remains.
C8_RemovesExactlyStaleCacheFiles ==
    last.op = "enter"
        => /\ removed = {f \in last.dir :
                            MatchesPattern(f) /\ f # cache_file(version)}
           /\ \A v \in Versions \ {version} : cache_file(v) \notin cache_dir
           /\ \A f \in last.dir :
                 (f = cache_file(version) \/ ~MatchesPattern(f))
                     => f \in cache_dir
           /\ Cardinality({f \in cache_dir : MatchesPattern(f)}) <= 1

\* The directory held both versions' cache files and every other file when
\* the scope was entered.
C8_Witness ==
    /\ last.op = "enter"
    /\ last.dir = FileNames
    /\ version = <<"2">>
    /\ cache_file(<<"1">>) \in removed
    /\ cache_file(<<"2">>) \in cache_dir

\* C9: queue_website_update never raises, whether sending the request
\* failed or the response carried an error status.
C9_NeverRaises ==
    last.op = "queue_website_update" => last.out.kind = "return"

(***************************************************************************)
(* ask_yes_no                                                              *)
(***************************************************************************)
Whitespace == {" "}

RECURSIVE lstrip(_)
lstrip(s) ==
    IF s # <<>> /\ Head(s) \in Whitespace THEN lstrip(Tail(s)) ELSE s

RECURSIVE rstrip(_)
rstrip(s) ==
    IF s # <<>> /\ s[Len(s)] \in Whitespace
    THEN rstrip(SubSeq(s, 1, Len(s) - 1))
    ELSE s

\* s.strip()
strip(s) == rstrip(lstrip(s))

lower_char(c) ==
    CASE c = "Y" -> "y"
      [] c = "N" -> "n"
      [] OTHER -> c

\* s.lower()
lower_identity(s) == s

lower(s) == [i \in 1..Len(s) |-> lower_char(s[i])]

ask_yes_no(line, defaultNo) ==
    LET stripped == lower(strip(line))
    IN  IF stripped = <<>>
        THEN (IF defaultNo THEN FALSE ELSE TRUE)
        ELSE stripped = <<"y">>

PromptChars == {"y", "Y", "n", "N", "o", "e", "s", " "}

InitPrompt ==
    /\ pc = "call"
    /\ DepsIdle
    /\ CacheIdle
    /\ user_input \in StrsUpTo(PromptChars, MaxLine)
    /\ default_no \in BOOLEAN
    /\ answer = NotCalled

AskYesNo ==
    /\ pc = "call"
    /\ answer' = Return(ask_yes_no(user_input, default_no))
    /\ pc' = "done"
    /\ UNCHANGED <<user_input, default_no>>
    /\ UNCHANGED <<depsVars, cacheVars>>

NextPrompt == AskYesNo

SpecPrompt == InitPrompt /\ [][NextPrompt]_vars

\* C10: empty input returns the default, the input "y" returns true, and
\* every other non-empty input returns false, "Y", "yes", "n" and "no"
\* included.
C10_OnlyExactLowercaseY ==
    pc = "done"
        => /\ user_input = <<>> => (answer.value <=> ~default_no)
           /\ user_input = <<"y">> => answer.value
           /\ user_input \notin {<<>>, <<"y">>} => ~answer.value

\* C10 as amended: a line that is empty or all whitespace returns the
\* default; a line that is "y" or "Y" with any whitespace around it returns
\* true whatever the default; every other line returns false.
C10_StrippedLowercasedY ==
    pc = "done"
        => LET letters == {i \in 1..Len(user_input) : user_input[i] # " "}
           IN  answer.value <=>
                   IF letters = {} THEN ~default_no
                   ELSE /\ Cardinality(letters) = 1
                        /\ \A i \in letters : user_input[i] \in {"y", "Y"}

\* An upper-case Y with a space before it was answered under default-no.
C10_Witness ==
    /\ pc = "done"
    /\ user_input = <<" ", "Y">>
    /\ default_no
    /\ answer.value = TRUE

====
